---- MODULE Spec2Model ----
(***************************************************************************)
(* Model of the simple-vscode-vite-template extension.                     *)
(*                                                                         *)
(* Host side: src/src/panels/ExamplePanel.ts (singleton panel, disposal,   *)
(* message router) driven by src/src/extension.ts.  The VS Code platform   *)
(* objects the panel talks to (WebviewPanel, Event subscriptions) are      *)
(* modelled by what the calls in ExamplePanel.ts rely on: WebviewPanel     *)
(* .dispose() marks the view disposed once and fires onDidDispose          *)
(* synchronously; a subscription's dispose() removes its listener.         *)
(*                                                                         *)
(* Every action is one whole event-queue turn of the host.  `events` is    *)
(* the ordered trace of the externally visible effects of the last turn,   *)
(* each stamped with the value ExamplePanel.currentPanel had at that       *)
(* moment; `lastOp` names the turn.                                        *)
(***************************************************************************)
EXTENDS Naturals, Sequences, FiniteSets

\* Number of ExamplePanel instances the model lets the program construct.
MaxPanels == 3
\* Editor columns an open request may come from (0: no active text editor).
MaxColumn == 2
\* Distinct values getNonce() may return.
NumNonces == 2
\* vscode.ViewColumn.One
ViewColumnOne == 1

Insts == 1..MaxPanels
Columns == 0..MaxColumn
Nonces == 1..NumNonces
\* ExamplePanel.currentPanel === undefined
NoPanel == 0

SubDispose == "onDidDispose"
SubMessage == "onDidReceiveMessage"
SubKinds == {SubDispose, SubMessage}

(***************************************************************************)
(* JavaScript values carried by messages.                                  *)
(***************************************************************************)
Undefined == [defined |-> FALSE, str |-> ""]
Str(s) == [defined |-> TRUE, str |-> s]

\* A message object {command?, text?}.
Msg(command, text) == [kind |-> "object", command |-> command, text |-> text]
\* A payload that is not an object: null / undefined.
NullMsg == [kind |-> "nullish", command |-> Undefined, text |-> Undefined]
\* No message (turns that are not message deliveries).
NoMsg == [kind |-> "none", command |-> Undefined, text |-> Undefined]

Texts == {"hi", ""}
FallbackText == "Hello from webview!"
ReplyText == "Hello from extension!"

AlertMsgs == {Msg(Str("alert"), Str(t)) : t \in Texts} \cup {Msg(Str("alert"), Undefined)}
GetDataMsg == Msg(Str("getData"), Undefined)
UnknownMsg == Msg(Str("bogus"), Str("hi"))
NoCommandMsg == Msg(Undefined, Str("hi"))
Messages == AlertMsgs \cup {GetDataMsg, UnknownMsg, NoCommandMsg, NullMsg}

VARIABLES
  currentPanel,   \* ExamplePanel.currentPanel: NoPanel or an instance
  nInst,          \* instances constructed so far (instance ids are 1..nInst)
  viewLive,       \* viewLive[i]: the native WebviewPanel of instance i is not disposed
  disposables,    \* disposables[i]: this._disposables of instance i
  listeners,      \* listeners[i]: the event listeners of instance i still subscribed
  disposeCalls,   \* disposeCalls[i][k]: calls of dispose() on subscription k of i
  html,           \* html[i]: the markup set on instance i's webview
  events,         \* effects of the last turn, in order
  lastOp,         \* the last turn
  assetsBuilt     \* webview-ui/dist/assets/index.js and index.css exist on disk

hostVars == <<currentPanel, nInst, viewLive, disposables, listeners, disposeCalls, html, events, lastOp, assetsBuilt>>

Ev(kind, i, sub, arg, h) ==
  [ev |-> kind, inst |-> i, sub |-> sub, arg |-> arg, cur |-> h.currentPanel]

Emit(h, kind, i, sub, arg) == [h EXCEPT !.events = Append(@, Ev(kind, i, sub, arg, h))]

HostState ==
  [currentPanel |-> currentPanel, nInst |-> nInst, viewLive |-> viewLive,
   disposables |-> disposables, listeners |-> listeners,
   disposeCalls |-> disposeCalls, html |-> html, events |-> <<>>]

(***************************************************************************)
(* Teardown: ExamplePanel.dispose and the platform calls it makes.         *)
(***************************************************************************)
RECURSIVE Dispose(_, _), PanelDispose(_, _), DisposeLoop(_, _)

\* vscode.Disposable.dispose() of subscription s = <<instance, kind>>: the
\* listener is removed; the call is counted.
DisposableDispose(h, s) ==
  Emit([h EXCEPT !.listeners[s[1]] = @ \ {s[2]},
                 !.disposeCalls[s[1]][s[2]] = @ + 1],
       "subRelease", s[1], s[2], Undefined)

\* Mutant: the list is walked without being emptied (forEach, no pop).
DisposeLoopNoPop(h, i) ==
  LET ds == h.disposables[i]
      RECURSIVE Walk(_, _)
      Walk(g, n) == IF n = 0 THEN g ELSE Walk(DisposableDispose(g, ds[n]), n - 1)
  IN Walk(h, Len(ds))

\* Mutant: the list is emptied without releasing what it held.
DisposeLoopSkip(h, i) == [h EXCEPT !.disposables[i] = <<>>]

\* Mutant: `if` instead of `while`: only the last subscription is released.
DisposeLoopPopOnce(h, i) ==
  LET ds == h.disposables[i]
  IN IF Len(ds) = 0 THEN h
     ELSE DisposableDispose([h EXCEPT !.disposables[i] = SubSeq(ds, 1, Len(ds) - 1)],
                            ds[Len(ds)])

\* while (this._disposables.length) { pop(); disposable.dispose(); }
DisposeLoop(h, i) ==
  LET ds == h.disposables[i]
  IN IF Len(ds) = 0 THEN h
     ELSE DisposeLoop(
            DisposableDispose([h EXCEPT !.disposables[i] = SubSeq(ds, 1, Len(ds) - 1)],
                              ds[Len(ds)]),
            i)

\* vscode.WebviewPanel.dispose() of instance i's native view: a no-op when it
\* is already disposed; otherwise the view is released and onDidDispose fires
\* synchronously, running the listener registered by the constructor
\* (() => this.dispose()) while it is still subscribed.
PanelDispose(h, i) ==
  IF ~h.viewLive[i] THEN h
  ELSE LET h1 == Emit([h EXCEPT !.viewLive[i] = FALSE], "viewRelease", i, "", Undefined)
       IN IF SubDispose \in h1.listeners[i] THEN Dispose(h1, i) ELSE h1

\* Mutant: the singleton reference is cleared last instead of first.
DisposeClearLast(h, i) ==
  LET h1 == PanelDispose(Emit(h, "callPanelDispose", i, "", Undefined), i)
      h2 == DisposeLoop(h1, i)
  IN Emit([h2 EXCEPT !.currentPanel = NoPanel], "clear", i, "", Undefined)

\* ExamplePanel.dispose() on instance i.
Dispose(h, i) ==
  LET h1 == Emit([h EXCEPT !.currentPanel = NoPanel], "clear", i, "", Undefined)
      h2 == PanelDispose(Emit(h1, "callPanelDispose", i, "", Undefined), i)
  IN DisposeLoop(h2, i)

(***************************************************************************)
(* Construction and the open request.                                      *)
(***************************************************************************)
\* this._disposables of a new instance (field initialiser).
NewDisposables == <<>>

\* Source expressions of the Content-Security-Policy meta tag.
SrcNone == [kind |-> "'none'", nonce |-> 0]
SrcCspSource == [kind |-> "cspSource", nonce |-> 0]
SrcUnsafeInline == [kind |-> "'unsafe-inline'", nonce |-> 0]
SrcNonce(n) == [kind |-> "nonce", nonce |-> n]

\* webview.html before the constructor sets it.
NoHtml ==
  [csp |-> [defaultSrc |-> {}, styleSrc |-> {}, scriptSrc |-> {}],
   links |-> <<>>, scripts |-> <<>>]

\* _getHtmlForWebview with the nonce drawn by getNonce(): the policy of the
\* meta tag, the stylesheet link and the script tag of the document.
GetHtmlForWebview(nonce) ==
  [csp |-> [defaultSrc |-> {SrcNone},
            styleSrc |-> {SrcCspSource, SrcUnsafeInline},
            scriptSrc |-> {SrcNonce(nonce)}],
   links |-> <<"index.css">>,
   scripts |-> <<[nonce |-> nonce, src |-> "index.js"]>>]

\* The private constructor, for new instance i over its native view.
Constructor(h, i, nonce) ==
  LET h1 == Emit([h EXCEPT !.disposables[i] = NewDisposables,
                           !.html[i] = GetHtmlForWebview(nonce)],
                 "render", i, "", Undefined)
      \* this._panel.onDidDispose(() => this.dispose(), null, this._disposables)
      h2 == [h1 EXCEPT !.listeners[i] = @ \cup {SubDispose},
                       !.disposables[i] = Append(@, <<i, SubDispose>>)]
      \* this._panel.webview.onDidReceiveMessage(handler, null, this._disposables)
      h3 == [h2 EXCEPT !.listeners[i] = @ \cup {SubMessage},
                       !.disposables[i] = Append(@, <<i, SubMessage>>)]
  IN h3

\* column || vscode.ViewColumn.One
ColumnOrOne(column) == IF column = 0 THEN ViewColumnOne ELSE column

ColumnArg(column) == [defined |-> column # 0, str |-> IF column = 0 THEN "" ELSE "column"]

\* Mutant: no singleton check, every open request creates a panel.
CreateOrShowAlways(h, column, nonce) ==
  LET i == h.nInst + 1
      h1 == Emit([h EXCEPT !.nInst = i, !.viewLive[i] = TRUE],
                 "createView", i, "", ColumnArg(ColumnOrOne(column)))
      h2 == Constructor(h1, i, nonce)
  IN [h2 EXCEPT !.currentPanel = i]

\* ExamplePanel.createOrShow(extensionUri) with the active editor's column
\* (0: none) and the nonce the render would draw.
CreateOrShow(h, column, nonce) ==
  IF h.currentPanel # NoPanel
  THEN \* reveal() of a disposed native view throws
       IF h.viewLive[h.currentPanel]
       THEN Emit(h, "reveal", h.currentPanel, "", ColumnArg(column))
       ELSE Emit(h, "error", h.currentPanel, "", Str("Webview is disposed"))
  ELSE LET i == h.nInst + 1
           h1 == Emit([h EXCEPT !.nInst = i, !.viewLive[i] = TRUE],
                      "createView", i, "", ColumnArg(ColumnOrOne(column)))
           h2 == Constructor(h1, i, nonce)
       IN [h2 EXCEPT !.currentPanel = i]

(***************************************************************************)
(* Message router (host side).                                             *)
(***************************************************************************)
\* Mutant: the reply goes to ExamplePanel.currentPanel instead of this._panel.
OnDidReceiveMessageToCurrent(h, i, m) ==
  IF m.kind # "object" THEN Emit(h, "error", i, "", Str("TypeError"))
  ELSE IF m.command = Str("alert") THEN Emit(h, "notify", i, "", m.text)
  ELSE IF m.command = Str("getData")
       THEN IF h.currentPanel = NoPanel THEN Emit(h, "error", i, "", Str("TypeError"))
            ELSE Emit(h, "post", h.currentPanel, "dataResponse", Str(ReplyText))
  ELSE h

\* The listener the constructor gives to webview.onDidReceiveMessage, run by
\* instance i on message m: switch (message.command).  Reading .command of
\* null/undefined throws a TypeError.
OnDidReceiveMessage(h, i, m) ==
  IF m.kind # "object" THEN Emit(h, "error", i, "", Str("TypeError"))
  ELSE IF m.command = Str("alert")
       THEN \* vscode.window.showInformationMessage(message.text)
            Emit(h, "notify", i, "", m.text)
  ELSE IF m.command = Str("getData")
       THEN \* this._panel.webview.postMessage({command: 'dataResponse', data: {...}})
            Emit(h, "post", i, "dataResponse", Str(ReplyText))
  ELSE h

\* The platform delivers message m from instance i's surface: the listener
\* runs only while its subscription stands.
Deliver(h, i, m) ==
  IF SubMessage \in h.listeners[i] THEN OnDidReceiveMessage(h, i, m) ELSE h

(***************************************************************************)
(* Host specification.                                                     *)
(***************************************************************************)
Op(op, i, m) == [op |-> op, inst |-> i, msg |-> m]

SetHost(h, op) ==
  /\ currentPanel' = h.currentPanel
  /\ nInst' = h.nInst
  /\ viewLive' = h.viewLive
  /\ disposables' = h.disposables
  /\ listeners' = h.listeners
  /\ disposeCalls' = h.disposeCalls
  /\ html' = h.html
  /\ events' = h.events
  /\ lastOp' = op
  /\ assetsBuilt' = assetsBuilt

HostInitState ==
  [currentPanel |-> NoPanel, nInst |-> 0,
   viewLive |-> [i \in Insts |-> FALSE],
   disposables |-> [i \in Insts |-> <<>>],
   listeners |-> [i \in Insts |-> {}],
   disposeCalls |-> [i \in Insts |-> [k \in SubKinds |-> 0]],
   html |-> [i \in Insts |-> NoHtml],
   events |-> <<>>]

HostIs(h, op) ==
  /\ currentPanel = h.currentPanel
  /\ nInst = h.nInst
  /\ viewLive = h.viewLive
  /\ disposables = h.disposables
  /\ listeners = h.listeners
  /\ disposeCalls = h.disposeCalls
  /\ html = h.html
  /\ events = h.events
  /\ lastOp = op
  /\ assetsBuilt = TRUE

\* The extension after activate(): no panel yet.
HostInit == HostIs(HostInitState, Op("activate", 0, NoMsg))

(***************************************************************************)
(* UI surface: webview-ui/src/App.tsx and the useVSCodeApi hook.  One      *)
(* surface (one window) with component instances that call the hook.       *)
(***************************************************************************)
\* Component instances that call useVSCodeApi().
MaxComponents == 2
\* window.acquireVsCodeApi() calls the model follows.
MaxAcquire == 2
\* Messages in flight in one direction.
MaxInFlight == 2

Comps == 1..MaxComponents

VARIABLES
  mounted,       \* mounted[c]: component instance c is in the tree
  apiRef,        \* apiRef[c]: apiRef.current of c is not null
  message,       \* message[c]: the `message` state of c (text input)
  acquireCalls,  \* calls of window.acquireVsCodeApi()
  msgListeners,  \* 'message' listeners registered on window
  outbox,        \* messages posted by the surface, not yet handled by the host
  inbox,         \* messages posted by the host, not yet dispatched in the surface
  console,       \* console.log lines of the last surface turn
  uiOp           \* the last surface turn

uiVars == <<mounted, apiRef, message, acquireCalls, msgListeners, outbox, inbox, console, uiOp>>

UIState ==
  [mounted |-> mounted, apiRef |-> apiRef, message |-> message,
   acquireCalls |-> acquireCalls, msgListeners |-> msgListeners,
   outbox |-> outbox, inbox |-> inbox, console |-> <<>>, threw |-> FALSE]

UIInitState ==
  [mounted |-> [c \in Comps |-> FALSE], apiRef |-> [c \in Comps |-> FALSE],
   message |-> [c \in Comps |-> ""], acquireCalls |-> 0, msgListeners |-> 0,
   outbox |-> <<>>, inbox |-> <<>>, console |-> <<>>, threw |-> FALSE]

SetUI(u, op) ==
  /\ mounted' = u.mounted
  /\ apiRef' = u.apiRef
  /\ message' = u.message
  /\ acquireCalls' = u.acquireCalls
  /\ msgListeners' = u.msgListeners
  /\ outbox' = u.outbox
  /\ inbox' = u.inbox
  /\ console' = u.console
  /\ uiOp' = op

UIInit ==
  /\ mounted = UIInitState.mounted
  /\ apiRef = UIInitState.apiRef
  /\ message = UIInitState.message
  /\ acquireCalls = 0
  /\ msgListeners = 0
  /\ outbox = <<>>
  /\ inbox = <<>>
  /\ console = <<>>
  /\ uiOp = "load"

\* window.acquireVsCodeApi(): the platform hands the handle out once per
\* surface and throws on any later call.
AcquireVsCodeApi(u) ==
  IF u.acquireCalls >= 1
  THEN [u EXCEPT !.acquireCalls = @ + 1, !.threw = TRUE]
  ELSE [u EXCEPT !.acquireCalls = @ + 1]

\* useVSCodeApi() run by a render of component instance c.
UseVSCodeApi(u, c) ==
  IF u.apiRef[c] THEN u
  ELSE LET u1 == AcquireVsCodeApi(u)
       IN IF u1.threw THEN u1
          ELSE \* apiRef.current = handle; window.addEventListener('message', ...)
               [u1 EXCEPT !.apiRef[c] = TRUE, !.msgListeners = @ + 1]

\* One render of App as component instance c.  A first render mounts it with
\* fresh hook state (useRef(null), useState('')); a render that throws leaves
\* the instance out of the tree.
RenderApp(u, c) ==
  LET u0 == IF u.mounted[c] THEN u
            ELSE [u EXCEPT !.apiRef[c] = FALSE, !.message[c] = ""]
      u1 == UseVSCodeApi(u0, c)
  IN IF u1.threw
     THEN [u1 EXCEPT !.mounted[c] = FALSE, !.apiRef[c] = FALSE, !.message[c] = ""]
     ELSE [u1 EXCEPT !.mounted[c] = TRUE]

\* Mutant: the input is sent as it is, without the fallback.
HandleSendMessageNoFallback(u, c) ==
  [u EXCEPT !.outbox = Append(@, Msg(Str("alert"), Str(u.message[c])))]

\* handleSendMessage of c: text: message || 'Hello from webview!'
HandleSendMessage(u, c) ==
  [u EXCEPT !.outbox = Append(@,
     Msg(Str("alert"), Str(IF u.message[c] = "" THEN FallbackText ELSE u.message[c])))]

\* handleGetData of c
HandleGetData(u, c) == [u EXCEPT !.outbox = Append(@, GetDataMsg)]

\* Mutant: the listener answers a dataResponse with a new getData request.
MessageListenerEcho(u, m) ==
  LET u1 == [u EXCEPT !.console = Append(@, [line |-> "received", data |-> m.text])]
  IN IF m.command = Str("dataResponse")
     THEN [u1 EXCEPT !.console = Append(@, [line |-> "data", data |-> m.text]),
                     !.outbox = Append(@, GetDataMsg)]
     ELSE u1

\* The listener useVSCodeApi registers, run on inbound message m:
\* console.log('Received ...'); switch (message.command) case 'dataResponse'.
MessageListener(u, m) ==
  LET u1 == [u EXCEPT !.console = Append(@, [line |-> "received", data |-> m.text])]
  IN IF m.command = Str("dataResponse")
     THEN [u1 EXCEPT !.console = Append(@, [line |-> "data", data |-> m.text])]
     ELSE u1

\* window dispatches inbound message m to every registered listener.
RECURSIVE DispatchMessage(_, _, _)
DispatchMessage(u, m, n) ==
  IF n = 0 THEN u ELSE DispatchMessage(MessageListener(u, m), m, n - 1)

\* The messages the host posted during a turn, as the surface receives them.
RECURSIVE Posted(_)
Posted(evs) ==
  IF evs = <<>> THEN <<>>
  ELSE IF Head(evs).ev = "post"
       THEN <<Msg(Str(Head(evs).sub), Head(evs).arg)>> \o Posted(Tail(evs))
       ELSE Posted(Tail(evs))

(***************************************************************************)
(* Request-response pattern (documented for the surface): sendRequest, its *)
(* timeout and the reply listener over the pendingRequests map.            *)
(***************************************************************************)
\* Requests the model lets the surface issue.
MaxRequests == 3

\* Ids a message may carry; MaxRequests itself is never issued.
ReqIds == 0..MaxRequests

VARIABLES
  messageId,     \* let messageId = 0: the next request id
  pending,       \* keys of pendingRequests
  timers,        \* ids whose setTimeout callback has not run yet
  posts,         \* posts[id]: vscode.postMessage calls carrying request id
  outcome,       \* outcome[id]: state of the promise sendRequest returned
  resolveCalls,  \* resolveCalls[id]: calls of its resolve
  rejectCalls,   \* rejectCalls[id]: calls of its reject
  reqOp          \* the last turn of the pattern

reqVars == <<messageId, pending, timers, posts, outcome, resolveCalls, rejectCalls, reqOp>>

ReqState ==
  [messageId |-> messageId, pending |-> pending, timers |-> timers, posts |-> posts,
   outcome |-> outcome, resolveCalls |-> resolveCalls, rejectCalls |-> rejectCalls]

ReqInitState ==
  [messageId |-> 0, pending |-> {}, timers |-> {},
   posts |-> [id \in ReqIds |-> 0],
   outcome |-> [id \in ReqIds |-> "none"],
   resolveCalls |-> [id \in ReqIds |-> 0],
   rejectCalls |-> [id \in ReqIds |-> 0]]

ReqOp(op, id) == [op |-> op, id |-> id]

SetReq(q, op) ==
  /\ messageId' = q.messageId
  /\ pending' = q.pending
  /\ timers' = q.timers
  /\ posts' = q.posts
  /\ outcome' = q.outcome
  /\ resolveCalls' = q.resolveCalls
  /\ rejectCalls' = q.rejectCalls
  /\ reqOp' = op

ReqInit ==
  /\ messageId = ReqInitState.messageId
  /\ pending = ReqInitState.pending
  /\ timers = ReqInitState.timers
  /\ posts = ReqInitState.posts
  /\ outcome = ReqInitState.outcome
  /\ resolveCalls = ReqInitState.resolveCalls
  /\ rejectCalls = ReqInitState.rejectCalls
  /\ reqOp = ReqOp("load", 0)

TimeoutReason == "rejected: Request timeout"
ErrorReason == "rejected: error"

\* resolve(result) of request id's promise: only the first settlement counts.
Resolve(q, id) ==
  [q EXCEPT !.resolveCalls[id] = @ + 1,
            !.outcome[id] = IF @ = "pending" THEN "resolved" ELSE @]

\* reject(reason) of request id's promise.
Reject(q, id, reason) ==
  [q EXCEPT !.rejectCalls[id] = @ + 1,
            !.outcome[id] = IF @ = "pending" THEN reason ELSE @]

\* sendRequest(command, payload): the promise executor.
SendRequest(q) ==
  LET id == q.messageId
  IN [q EXCEPT !.messageId = id + 1,
               !.pending = @ \cup {id},
               !.outcome[id] = "pending",
               !.posts[id] = @ + 1,
               !.timers = @ \cup {id}]

\* Mutant: the timeout forgets the request without rejecting it.
OnTimeoutSilent(q, id) ==
  IF id \in q.pending THEN [q EXCEPT !.pending = @ \ {id}] ELSE q

\* Mutant: the timeout rejects without looking at pendingRequests.
OnTimeoutNoCheck(q, id) ==
  Reject([q EXCEPT !.pending = @ \ {id}], id, TimeoutReason)

\* The setTimeout callback of request id.
OnTimeout(q, id) ==
  IF id \in q.pending
  THEN Reject([q EXCEPT !.pending = @ \ {id}], id, TimeoutReason)
  ELSE q

\* The reply listener on a message {id, result, error}.
OnReply(q, id, isError) ==
  IF id \in q.pending
  THEN LET q1 == [q EXCEPT !.pending = @ \ {id}]
       IN IF isError THEN Reject(q1, id, ErrorReason) ELSE Resolve(q1, id)
  ELSE q

(***************************************************************************)
(* Host specification: the panel lifecycle and the router under any        *)
(* inbound message.                                                        *)
(***************************************************************************)
\* The command 'vscode-template.openPanel' registered by activate().
OpenPanelCommand ==
  /\ \E column \in Columns, nonce \in Nonces :
       /\ currentPanel # NoPanel \/ nInst < MaxPanels
       /\ SetHost(CreateOrShow(HostState, column, nonce),
                  Op("createOrShow", 0, NoMsg))
  /\ UNCHANGED <<uiVars, reqVars>>

\* The user closes the tab of instance i: the platform disposes the panel.
UserClose ==
  /\ \E i \in 1..nInst :
       /\ viewLive[i]
       /\ SetHost(PanelDispose(HostState, i), Op("close", i, NoMsg))
  /\ UNCHANGED <<uiVars, reqVars>>

\* dispose() called on instance i by a holder of the reference.
ExplicitDispose ==
  /\ \E i \in 1..nInst :
       SetHost(Dispose(HostState, i), Op("dispose", i, NoMsg))
  /\ UNCHANGED <<uiVars, reqVars>>

\* A message from instance i's surface reaches the host.
ReceiveMessage ==
  /\ \E i \in 1..nInst, m \in Messages :
       SetHost(Deliver(HostState, i, m), Op("receive", i, m))
  /\ UNCHANGED <<uiVars, reqVars>>

\* `npm run build:webview` writes the bundled assets.
BuildWebview ==
  /\ ~assetsBuilt
  /\ assetsBuilt' = TRUE
  /\ events' = <<>>
  /\ lastOp' = Op("build", 0, NoMsg)
  /\ UNCHANGED <<currentPanel, nInst, viewLive, disposables, listeners, disposeCalls, html>>
  /\ UNCHANGED <<uiVars, reqVars>>

\* `npm run clean` removes the build artifacts.
Clean ==
  /\ assetsBuilt
  /\ assetsBuilt' = FALSE
  /\ events' = <<>>
  /\ lastOp' = Op("clean", 0, NoMsg)
  /\ UNCHANGED <<currentPanel, nInst, viewLive, disposables, listeners, disposeCalls, html>>
  /\ UNCHANGED <<uiVars, reqVars>>

vars == <<hostVars, uiVars, reqVars>>

Init == HostInit /\ UIInit /\ ReqInit

Next ==
  \/ OpenPanelCommand \/ UserClose \/ ExplicitDispose \/ ReceiveMessage
  \/ BuildWebview \/ Clean

Spec == Init /\ [][Next]_vars

(***************************************************************************)
(* Surface specification: the surface of one panel that stays open, with   *)
(* FIFO channels to and from its host router.                              *)
(***************************************************************************)
\* The panel the surface belongs to.
ThePanel == HostInitState.nInst + 1

InitUI ==
  /\ HostIs(CreateOrShow(HostInitState, 0, 1), Op("createOrShow", 0, NoMsg))
  /\ UIInit
  /\ ReqInit

\* React renders component instance c (mount or re-render).
Render ==
  /\ \E c \in Comps :
       /\ acquireCalls < MaxAcquire
       /\ SetUI(RenderApp(UIState, c), "render")
  /\ UNCHANGED <<hostVars, reqVars>>

\* React removes component instance c from the tree; its hook state is dropped.
Unmount ==
  /\ \E c \in Comps :
       /\ mounted[c]
       /\ SetUI([UIState EXCEPT !.mounted[c] = FALSE, !.apiRef[c] = FALSE,
                                !.message[c] = ""], "unmount")
  /\ UNCHANGED <<hostVars, reqVars>>

\* The user edits the input of c: setMessage(e.target.value), then a re-render.
SetMessage ==
  /\ \E c \in Comps, t \in Texts :
       /\ mounted[c]
       /\ SetUI(RenderApp([UIState EXCEPT !.message[c] = t], c), "setMessage")
  /\ UNCHANGED <<hostVars, reqVars>>

\* The user presses Send Alert in c.
SendAlert ==
  /\ \E c \in Comps :
       /\ mounted[c]
       /\ Len(outbox) < MaxInFlight
       /\ SetUI(HandleSendMessage(UIState, c), "sendAlert")
  /\ UNCHANGED <<hostVars, reqVars>>

\* The user presses Get Data in c.
GetData ==
  /\ \E c \in Comps :
       /\ mounted[c]
       /\ Len(outbox) < MaxInFlight
       /\ SetUI(HandleGetData(UIState, c), "getData")
  /\ UNCHANGED <<hostVars, reqVars>>

\* The host handles the oldest message of the surface; what it posts joins
\* the surface's inbox.
HostTurn ==
  /\ outbox # <<>>
  /\ LET h == Deliver(HostState, ThePanel, Head(outbox))
     IN /\ Len(inbox) + Len(Posted(h.events)) <= MaxInFlight
        /\ SetHost(h, Op("receive", ThePanel, Head(outbox)))
        /\ outbox' = Tail(outbox)
        /\ inbox' = inbox \o Posted(h.events)
        /\ console' = <<>>
        /\ uiOp' = "hostTurn"
  /\ UNCHANGED <<mounted, apiRef, message, acquireCalls, msgListeners>>
  /\ UNCHANGED reqVars

\* The surface dispatches the oldest inbound message to its listeners.
SurfaceTurn ==
  /\ inbox # <<>>
  /\ SetUI(DispatchMessage([UIState EXCEPT !.inbox = Tail(inbox)], Head(inbox),
                           msgListeners), "message")
  /\ UNCHANGED <<hostVars, reqVars>>

NextUI == Render \/ Unmount \/ SetMessage \/ SendAlert \/ GetData \/ HostTurn \/ SurfaceTurn

SpecUI == InitUI /\ [][NextUI]_vars

\* The same surface with both event queues draining: a queued message is
\* eventually handled by the host, and a posted reply eventually dispatched.
SpecUIFair == SpecUI /\ WF_vars(HostTurn) /\ WF_vars(SurfaceTurn)

(***************************************************************************)
(* Request specification: the surface issues requests; replies with any id *)
(* arrive at any time; every armed timer runs (the event loop runs each    *)
(* setTimeout callback).                                                   *)
(***************************************************************************)
\* A caller awaits sendRequest(...).
IssueRequest ==
  /\ messageId < MaxRequests
  /\ SetReq(SendRequest(ReqState), ReqOp("send", messageId))
  /\ UNCHANGED <<hostVars, uiVars>>

\* The timer of request id runs.
TimerFire(id) ==
  /\ id \in timers
  /\ SetReq(OnTimeout([ReqState EXCEPT !.timers = @ \ {id}], id), ReqOp("timeout", id))
  /\ UNCHANGED <<hostVars, uiVars>>

\* A message carrying id (with or without error) reaches the listener.
ReplyArrives ==
  /\ \E id \in ReqIds, isError \in BOOLEAN :
       SetReq(OnReply(ReqState, id, isError),
              ReqOp(IF isError THEN "replyError" ELSE "reply", id))
  /\ UNCHANGED <<hostVars, uiVars>>

NextReq == IssueRequest \/ (\E id \in ReqIds : TimerFire(id)) \/ ReplyArrives

SpecReq == Init /\ [][NextReq]_vars /\ \A id \in ReqIds : WF_vars(TimerFire(id))

(***************************************************************************)
(* Properties.                                                             *)
(***************************************************************************)
LiveViews == {i \in Insts : viewLive[i]}
EventIdx == 1..Len(events)
OwnRegistrations(i) == <<<<i, SubDispose>>, <<i, SubMessage>>>>
Releases(i, k) == {n \in EventIdx : /\ events[n].ev = "subRelease"
                                    /\ events[n].inst = i
                                    /\ events[n].sub = k}
TornDownInTurn == {events[n].inst : n \in {m \in EventIdx : events[m].ev = "viewRelease"}}
HostFrame == <<currentPanel, nInst, viewLive, disposables, listeners, disposeCalls, html>>

\* C1: after any sequence of open requests, user closes and explicit
\* dispose() calls, at most one native webview panel created by ExamplePanel
\* is live.
C1_AtMostOneLiveView == Cardinality(LiveViews) <= 1

\* C2: every cleanup action registered by the constructor (the onDidDispose
\* and the onDidReceiveMessage subscription) is released exactly once at
\* teardown: never before it, exactly once in the turn that tears the
\* instance down (user close or explicit dispose()), and never again after.
C2_CleanupExactlyOnce ==
  /\ \A i \in 1..nInst : \A k \in SubKinds :
       disposeCalls[i][k] = IF viewLive[i] THEN 0 ELSE 1
  /\ \A i \in TornDownInTurn : \A k \in SubKinds : Cardinality(Releases(i, k)) = 1

\* An explicit dispose() of a live instance: _panel.dispose() fired
\* onDidDispose and re-entered dispose().
C2_Witness ==
  /\ lastOp.op = "dispose"
  /\ lastOp.inst \in TornDownInTurn
  /\ \A k \in SubKinds : disposeCalls[lastOp.inst][k] = 1

\* C3 as stated: ExamplePanel.currentPanel is still set (to the instance
\* being torn down) at the moment its native view and each of its cleanup
\* actions is released.
C3_SingletonSetAtRelease ==
  \A n \in EventIdx :
    events[n].ev \in {"viewRelease", "subRelease"} => events[n].cur = events[n].inst

\* C3 amended: dispose() clears the singleton reference first and only then
\* releases: currentPanel is already undefined at the moment dispose() calls
\* _panel.dispose() and at the moment each cleanup action is released.
C3_ClearedBeforeRelease ==
  \A n \in EventIdx :
    events[n].ev \in {"callPanelDispose", "subRelease"} =>
      /\ events[n].cur = NoPanel
      /\ \E m \in 1..(n - 1) : events[m].ev = "clear" /\ events[m].inst = events[n].inst

\* A teardown of the current instance by an explicit dispose().
C3_Witness ==
  /\ lastOp.op = "dispose"
  /\ \E n \in EventIdx : events[n].ev = "subRelease" /\ events[n].inst = lastOp.inst
  /\ \E n \in EventIdx : events[n].ev = "viewRelease" /\ events[n].inst = lastOp.inst

\* C4: when ExamplePanel.currentPanel is set, createOrShow only reveals its
\* native view: no new native view, currentPanel not replaced, no new render
\* (nonce), no further cleanup actions or listeners.
C4_RevealOnly ==
  [][(currentPanel # NoPanel /\ lastOp'.op = "createOrShow") =>
       /\ UNCHANGED HostFrame
       /\ Len(events') = 1
       /\ events'[1].ev = "reveal"
       /\ events'[1].inst = currentPanel]_vars

\* A second open request while the panel is open.
C4_Witness ==
  /\ lastOp.op = "createOrShow"
  /\ Len(events) = 1
  /\ events[1].ev = "reveal"
  /\ Cardinality(LiveViews) = 1

\* C5: an instance owns only its own two registrations, and once an instance
\* is torn down it owns no cleanup action and none of its listeners is
\* subscribed, so an instance created afterwards starts from an empty list
\* and runs alongside no handler of the disposed one.
C5_FreshInstance ==
  \A i \in 1..nInst :
    /\ viewLive[i] => disposables[i] = OwnRegistrations(i) /\ listeners[i] = SubKinds
    /\ ~viewLive[i] => disposables[i] = <<>> /\ listeners[i] = {}

\* An open request that has just created an instance after an earlier one
\* was disposed.
C5_Witness ==
  /\ lastOp.op = "createOrShow"
  /\ currentPanel > 1
  /\ \E n \in EventIdx : events[n].ev = "createView" /\ events[n].inst = currentPanel
  /\ \E j \in 1..(currentPanel - 1) : disposeCalls[j][SubMessage] = 1

\* C6: dispose() on an instance that is already disposed releases no cleanup
\* action and no view, and raises no error.
C6_SecondDisposeReleasesNothing ==
  [][(lastOp'.op = "dispose" /\ ~viewLive[lastOp'.inst]) =>
       /\ disposeCalls' = disposeCalls
       /\ listeners' = listeners
       /\ disposables' = disposables
       /\ \A n \in 1..Len(events') :
            events'[n].ev \notin {"subRelease", "viewRelease", "error"}]_vars

\* A dispose() turn that found the view disposed and the list empty.
C6_Witness ==
  /\ lastOp.op = "dispose"
  /\ TornDownInTurn = {}
  /\ disposeCalls[lastOp.inst][SubDispose] = 1
  /\ Len(events) = 2

\* C7: an alert message handled by the router gives exactly one notification,
\* showing its text, or the fallback "Hello from webview!" when it has none.
C7_AlertNotifies ==
  (lastOp.op = "receive" /\ lastOp.msg \in AlertMsgs /\ SubMessage \in listeners[lastOp.inst]) =>
    /\ Len(events) = 1
    /\ events[1].ev = "notify"
    /\ events[1].arg = IF lastOp.msg.text.defined THEN lastOp.msg.text ELSE Str(FallbackText)

\* C8: a getData message handled by a live panel gives exactly one reply
\* {command: "dataResponse", data: {message: "Hello from extension!"}}, posted
\* to that panel's own webview, and no notification.
C8_GetDataReply ==
  (lastOp.op = "receive" /\ lastOp.msg = GetDataMsg /\ SubMessage \in listeners[lastOp.inst]) =>
    /\ Len(events) = 1
    /\ events[1].ev = "post"
    /\ events[1].inst = lastOp.inst
    /\ events[1].sub = "dataResponse"
    /\ events[1].arg = Str(ReplyText)

C8_Witness ==
  /\ lastOp.op = "receive"
  /\ lastOp.msg = GetDataMsg
  /\ viewLive[lastOp.inst]
  /\ Len(events) = 1

\* C9: a malformed inbound message (unknown command, no command, or a payload
\* that is not an object) runs no handler arm: no notification, no reply, no
\* error, panel state unchanged.
C9_MalformedIgnored ==
  [][(lastOp'.op = "receive" /\ lastOp'.msg \in {UnknownMsg, NoCommandMsg, NullMsg}) =>
       /\ events' = <<>>
       /\ UNCHANGED HostFrame]_vars

\* C10: over any sequence of renders of components that call useVSCodeApi,
\* window.acquireVsCodeApi is called exactly once and exactly one 'message'
\* listener is registered.
C10_AcquiredOnce ==
  /\ acquireCalls <= 1
  /\ msgListeners <= 1
  /\ (\E c \in Comps : mounted[c]) => acquireCalls = 1 /\ msgListeners = 1

HasEvent(kind) == \E n \in EventIdx : events[n].ev = kind

\* C11: when a bundled asset is missing at render time, createOrShow tells
\* the user through a notification and aborts: no panel instance is stored.
C11_MissingAssetAborts ==
  (lastOp.op = "createOrShow" /\ HasEvent("render") /\ ~assetsBuilt) =>
    /\ HasEvent("notify")
    /\ currentPanel = NoPanel

\* C12: the singleton goes only Closed -> Open (an open request constructs a
\* new instance), Open -> Open (repeated open request) and Open -> Closed
\* (user close or explicit dispose()); a native view goes away only by a close
\* or dispose() of its own instance; a disposed instance is terminal: it never
\* becomes currentPanel again and never has a listener or cleanup action again.
C12_PanelTransitions ==
  [][/\ currentPanel' # currentPanel =>
          \/ /\ currentPanel = NoPanel
             /\ lastOp'.op = "createOrShow"
             /\ nInst' = nInst + 1
             /\ currentPanel' = nInst'
          \/ /\ currentPanel # NoPanel
             /\ currentPanel' = NoPanel
             /\ lastOp'.op \in {"close", "dispose"}
     /\ \A i \in 1..nInst :
          /\ ~viewLive[i] =>
               /\ ~viewLive'[i]
               /\ currentPanel' # i
               /\ listeners'[i] = {}
               /\ disposables'[i] = <<>>
          /\ (viewLive[i] /\ ~viewLive'[i]) =>
               lastOp'.op \in {"close", "dispose"} /\ lastOp'.inst = i]_vars

\* A repeated open request on a later instance while an earlier one is disposed.
C12_Witness ==
  /\ lastOp.op = "createOrShow"
  /\ HasEvent("reveal")
  /\ currentPanel # NoPanel
  /\ \E j \in 1..nInst : j < currentPanel /\ ~viewLive[j] /\ listeners[j] = {}

\* C13: the markup of every panel carries a policy that denies all sources
\* by default, allows styles only from the bundled stylesheet source and
\* scripts only with the nonce; that nonce is the nonce attribute of the
\* single script tag and of no other.
C13_StrictPolicy ==
  \A i \in 1..nInst :
    /\ html[i].csp.defaultSrc = {SrcNone}
    /\ html[i].csp.styleSrc = {SrcCspSource}
    /\ Len(html[i].scripts) = 1
    /\ html[i].csp.scriptSrc = {SrcNonce(html[i].scripts[1].nonce)}

Issued == 0..(messageId - 1)

\* C14: a request whose timer runs while it is still pending is rejected
\* with 'Request timeout'; each request is posted exactly once, never again
\* (no retry); and every request is eventually settled, by a reply or by its
\* timeout.
C14_TimeoutSettles ==
  /\ [](\A id \in ReqIds : posts[id] = IF id \in Issued THEN 1 ELSE 0)
  /\ [][\A id \in ReqIds :
          (reqOp'.op = "timeout" /\ reqOp'.id = id /\ id \in timers /\ id \in pending) =>
            /\ outcome'[id] = TimeoutReason
            /\ id \notin pending'
            /\ posts' = posts]_vars
  /\ \A id \in ReqIds : (id \in Issued) ~> (outcome[id] \notin {"none", "pending"})

\* A request that timed out, posted once.
C14_Witness ==
  \E id \in Issued :
    /\ reqOp = ReqOp("timeout", id)
    /\ outcome[id] = TimeoutReason
    /\ posts[id] = 1

\* C20: under every interleaving of replies and timers each request's
\* continuation is settled at most once, never both resolved and rejected; a
\* reply for a request that is no longer pending (after its timeout or an
\* earlier reply) changes nothing; a timer that runs after the reply changes
\* nothing but itself; a reply settles only the request whose id it carries.
C20_SettledAtMostOnce ==
  /\ [](\A id \in ReqIds :
          /\ resolveCalls[id] + rejectCalls[id] <= 1
          /\ (id \in pending) <=> (outcome[id] = "pending")
          /\ (outcome[id] \in {"none", "pending"}) <=> (resolveCalls[id] + rejectCalls[id] = 0))
  /\ [][\A id \in ReqIds :
          /\ (reqOp'.op \in {"reply", "replyError"} /\ reqOp'.id = id) =>
               /\ id \notin pending => UNCHANGED <<outcome, resolveCalls, rejectCalls, pending, timers>>
               /\ \A j \in ReqIds \ {id} :
                    /\ outcome'[j] = outcome[j]
                    /\ resolveCalls'[j] = resolveCalls[j]
                    /\ rejectCalls'[j] = rejectCalls[j]
          /\ (reqOp'.op = "timeout" /\ reqOp'.id = id /\ id \notin pending) =>
               UNCHANGED <<outcome, resolveCalls, rejectCalls, pending>>]_vars

\* The timer of a request ran after its reply had resolved it, while another
\* request is still pending.
C20_Witness ==
  \E id \in Issued :
    /\ reqOp = ReqOp("timeout", id)
    /\ outcome[id] = "resolved"
    /\ resolveCalls[id] = 1
    /\ rejectCalls[id] = 0
    /\ pending # {}

AlertOf(input) == Msg(Str("alert"), Str(IF input = "" THEN FallbackText ELSE input))

\* C15: every alert the surface emits carries a non-empty text: Send Alert
\* with an empty input sends "Hello from webview!", with a non-empty input
\* sends that input; the host then shows exactly one notification with the
\* text of the message and posts nothing back.
C15_AlertEndToEnd ==
  /\ [](\A n \in 1..Len(outbox) :
          outbox[n].command = Str("alert") =>
            outbox[n].text.defined /\ outbox[n].text.str # "")
  /\ [][uiOp' = "sendAlert" =>
          \E c \in Comps : mounted[c] /\ outbox' = Append(outbox, AlertOf(message[c]))]_vars
  /\ [][(uiOp' = "hostTurn" /\ Head(outbox).command = Str("alert")) =>
          /\ Len(events') = 1
          /\ events'[1].ev = "notify"
          /\ events'[1].arg = Head(outbox).text
          /\ events'[1].arg.str # ""
          /\ inbox' = inbox]_vars

\* The host has shown the fallback text of an alert sent with an empty input.
C15_Witness ==
  /\ uiOp = "hostTurn"
  /\ Len(events) = 1
  /\ events[1].ev = "notify"
  /\ events[1].arg = Str(FallbackText)

DataResponseMsg == Msg(Str("dataResponse"), Str(ReplyText))
DataLines == {n \in 1..Len(console) : console[n] = [line |-> "data", data |-> Str(ReplyText)]}
GetDataQueued == \E n \in 1..Len(outbox) : outbox[n] = GetDataMsg

\* C16: with the panel open and FIFO channels, a Get Data action eventually
\* leads to the surface's listener receiving one dataResponse; one action puts
\* exactly one message on the way to the host, the host answers it with
\* exactly one reply, and the listener sends nothing in response.
C16_GetDataRoundTrip ==
  /\ GetDataQueued ~> (uiOp = "message" /\ Cardinality(DataLines) = 1)
  /\ [][uiOp' = "getData" => outbox' = Append(outbox, GetDataMsg) /\ inbox' = inbox]_vars
  /\ [][(uiOp' = "hostTurn" /\ Head(outbox) = GetDataMsg) =>
          /\ outbox' = Tail(outbox)
          /\ inbox' = Append(inbox, DataResponseMsg)]_vars
  /\ [][uiOp' = "message" =>
          /\ outbox' = outbox
          /\ inbox' = Tail(inbox)
          /\ UNCHANGED hostVars]_vars

\* The reply to a Get Data action has reached the listener and nothing is
\* left in flight.
C16_Witness ==
  /\ uiOp = "message"
  /\ Cardinality(DataLines) = 1
  /\ outbox = <<>>
  /\ inbox = <<>>

\* C17: dispose() on an instance that is not the current singleton (a stale
\* one, disposed and since replaced) leaves ExamplePanel.currentPanel pointing
\* at the live instance.
C17_StaleDisposeKeepsSingleton ==
  [][(lastOp'.op = "dispose" /\ currentPanel # NoPanel /\ lastOp'.inst # currentPanel) =>
       currentPanel' = currentPanel]_vars

\* C18: between turns, ExamplePanel.currentPanel is defined exactly when the
\* native view it owns is live: no reveal of a disposed view, and no live
\* native view that currentPanel does not reference.
C18_SingletonIffLive ==
  /\ \A i \in Insts : viewLive[i] <=> currentPanel = i
  /\ ~HasEvent("error") \/ lastOp.op # "createOrShow"

\* C19: once an instance is torn down, no inbound message from its surface
\* runs a handler, and the host never posts to a disposed webview.
C19_NoHandlerAfterTeardown ==
  /\ (lastOp.op = "receive" /\ ~viewLive[lastOp.inst]) => events = <<>>
  /\ \A n \in EventIdx : events[n].ev = "post" => viewLive[events[n].inst]

\* A getData message of a torn-down instance's surface reached the host.
C19_Witness ==
  /\ lastOp.op = "receive"
  /\ lastOp.msg = GetDataMsg
  /\ ~viewLive[lastOp.inst]
  /\ disposeCalls[lastOp.inst][SubMessage] = 1

====
